---- MODULE Spec2Model ----
(***************************************************************************)
(* phenopype: the Pype session (src/phenopype/main.py, class Pype), its    *)
(* per-pass engine Pype._iterate, and the Container workspace with its     *)
(* annotation store (src/phenopype/utils.py, class Container).             *)
(*                                                                         *)
(* A configuration document is a sequence of steps; a step is a record     *)
(*   [name, form, methods]   form "list" | "nil" (no methods) | "str"      *)
(* and a method is a record                                                *)
(*   [form, name, ann, args] form "map" | "nil" ({name: None}) | "str"     *)
(* where ann is the ANNOTATION control block (present or not, each of its  *)
(* fields type/id/edit present or Missing) and args is the set of the      *)
(* other argument keys.  Python's False in the edit field is written       *)
(* "False".                                                                *)
(***************************************************************************)
EXTENDS Integers, Sequences, FiniteSets, TLC

VARIABLES
    pc,              \* position of the session's control flow
    flags,           \* Pype.flags (debug, autosave, feedback, fix_names, visualize, dry_run);
                     \* skip is read once, by the constructor, and is its input
    terminate,       \* Pype.flags.terminate
    config,          \* Pype.config
    config_updated,  \* Pype.config_updated
    parsed,          \* Pype.config_parsed_flattened: step name -> resolved method names
    file,            \* the document stored at config_path
    yfm,             \* Pype.YFM.content, the watcher's latest snapshot
    mode,            \* the flags of the running _iterate call (execute, visualize, feedback)
    si, mi,          \* step index and method index of the pass
    counter,         \* annotation_counter of the pass
    log,             \* Pype.log
    pype_restart,    \* _config.pype_restart
    container,       \* the Container(s): image, image_copy, image_bin, canvas, store
    stores,          \* the annotation stores: store reference -> type -> id -> payload
    run_defaults,    \* the default kwargs dict of Container.run
    hist,            \* observations of the run: calls, saves, passes, gate
    root_dir,        \* the directory at a Project's root_dir, as found on disk
    project          \* the Project under construction

vars == <<pc, flags, terminate, config, config_updated, parsed, file, yfm, mode,
          si, mi, counter, log, pype_restart, container, stores, run_defaults, hist,
          root_dir, project>>

-----------------------------------------------------------------------------
(* settings.py *)

Missing == "-"

NoAnn == [present |-> FALSE, type |-> Missing, id |-> Missing, edit |-> Missing]

\* settings.confirm_options, for what input() returns
Confirms(answer) == answer \in {"True", "true", "y", "yes"}

\* no directory at root_dir
NoDirectory ==
    [exists |-> FALSE, entries |-> {}, data |-> {}, attrs |-> << >>, references |-> {}]

\* no call of add_files yet
NoAdd ==
    [ op |-> Missing, mode |-> Missing, resize_factor |-> 0, overwrite |-> Missing,
      found |-> {}, before |-> {} ]

\* no call of add_reference
NoRef ==
    [ op |-> Missing, tag |-> Missing, activate |-> FALSE, dirs |-> {},
      raised |-> FALSE ]

\* no Project: the directory its constructor found, the answer given at its
\* prompt, the attributes it attached
NoProject ==
    [ before |-> NoDirectory, answer |-> Missing, attached |-> FALSE, dir_names |-> {},
      adds |-> 0, last |-> NoAdd, refs |-> 0, last_ref |-> NoRef ]

\* settings._annotation_functions
AnnotationFunctions ==
    [ write_comment |-> "comment", detect_QRcode |-> "comment",
      detect_contour |-> "contour",
      edit_contour |-> "drawing",
      set_landmark |-> "landmark", detect_landmark |-> "landmark",
      set_polyline |-> "line", detect_skeleton |-> "line",
      contour_to_mask |-> "mask", create_mask |-> "mask", detect_mask |-> "mask",
      create_reference |-> "reference", detect_reference |-> "reference",
      compute_shape_features |-> "shape_features",
      compute_texture_features |-> "texture_features" ]

\* settings._annotation_types
AnnotationTypes == {AnnotationFunctions[f] : f \in DOMAIN AnnotationFunctions}

\* settings._legacy_names
LegacyNames ==
    [ preprocessing |-> [ enter_data |-> "write_comment", comment |-> "write_comment",
                          detect_shape |-> "detect_mask" ],
      segmentation  |-> [ detect_contours |-> "detect_contour",
                          edit_contours |-> "edit_contour" ],
      measurement   |-> [ set_landmark |-> "set_landmark", set_landmarks |-> "set_landmark",
                          landmark |-> "set_landmark", landmarks |-> "set_landmark",
                          shape_features |-> "compute_shape_features",
                          texture_features |-> "compute_texture_features" ],
      visualization |-> [ draw_landmarks |-> "draw_landmark",
                          draw_contours |-> "draw_contour" ],
      export        |-> << >> ]

StepNames == DOMAIN LegacyNames

\* string.ascii_lowercase
Letters == << "a", "b", "c", "d", "e", "f", "g", "h", "i", "j", "k", "l", "m",
              "n", "o", "p", "q", "r", "s", "t", "u", "v", "w", "x", "y", "z" >>

\* The operation registry: the callables of phenopype.core.<step>.  Every
\* current name is registered under its step; no legacy spelling is.
Registry ==
    [ preprocessing |-> { "blur", "create_mask", "detect_mask", "write_comment",
                          "detect_QRcode", "create_reference", "detect_reference",
                          "select_channel" },
      segmentation  |-> { "threshold", "watershed", "morphology", "detect_contour",
                          "edit_contour", "contour_to_mask" },
      measurement   |-> { "set_landmark", "detect_landmark", "set_polyline",
                          "detect_skeleton", "compute_shape_features",
                          "compute_texture_features" },
      visualization |-> { "select_canvas", "draw_contour", "draw_landmark", "draw_mask" },
      export        |-> { "save_annotation", "save_canvas" } ]

\* hasattr(eval(step_name), method_name)
Exists(step_name, method_name) == method_name \in Registry[step_name]

-----------------------------------------------------------------------------
(* Pype._iterate, one method: extraction, name check, annotation params *)

\* method_name, method_args as extracted from the document entry
MethodArgs(method) ==
    IF method.form = "map" THEN [ann |-> method.ann, args |-> method.args]
    ELSE [ann |-> NoAnn, args |-> {}]

\* the legacy branch is taken: the name is unknown, fixing is on, the table has it
AliasFixed(step_name, method_name, fix_names) ==
    /\ ~Exists(step_name, method_name)
    /\ fix_names
    /\ method_name \in DOMAIN LegacyNames[step_name]

\* method_name after the name check
ResolveName(step_name, method_name, fix_names) ==
    IF AliasFixed(step_name, method_name, fix_names)
    THEN LegacyNames[step_name][method_name]
    ELSE method_name

\* the diagnostic of the last branch of the name check is printed
Diagnostic(step_name, method_name, fix_names) ==
    ~Exists(step_name, method_name) /\ ~fix_names

IsAnnotation(method_name) == method_name \in DOMAIN AnnotationFunctions

\* annotation_counter = dict.fromkeys(settings._annotation_types, -1)
CounterInit == [t \in AnnotationTypes |-> -1]

\* annotation_counter[settings._annotation_functions[method_name]] += 1
BumpCounter(cnt, method_name) ==
    IF IsAnnotation(method_name)
    THEN [cnt EXCEPT ![AnnotationFunctions[method_name]] = @ + 1]
    ELSE cnt

\* string.ascii_lowercase[annotation_counter[type]], on the bumped counter
DefaultId(cnt, method_name) == Letters[cnt[AnnotationFunctions[method_name]] + 1]

\* the default of the edit field
DefaultEdit(method_name) ==
    IF method_name \in { "detect_contour", "detect_shape", "compute_shape_features",
                         "compute_texture_features", "skeletonize" }
    THEN "overwrite" ELSE "False"

\* annotation_args after the three defaults; cnt is the bumped counter
AnnotationArgs(method_name, ann, cnt) ==
    [ present |-> TRUE,
      type |-> IF ann.present /\ ann.type # Missing THEN ann.type
               ELSE AnnotationFunctions[method_name],
      id   |-> IF ann.present /\ ann.id # Missing THEN ann.id
               ELSE DefaultId(cnt, method_name),
      edit |-> IF ann.present /\ ann.edit # Missing THEN ann.edit
               ELSE DefaultEdit(method_name) ]

\* method_args["passive"] = True is done for this call
Passive(m) == m.execute /\ ~m.feedback

\* an entry that shares the arguments of an annotation method with the call
UpdatedEntryShared(step_name, method, cnt, fix_names, m) ==
    LET name == ResolveName(step_name, method.name, fix_names)
        margs == MethodArgs(method)
    IN  IF IsAnnotation(name) \/ AliasFixed(step_name, method.name, fix_names)
        THEN [ form |-> "map", name |-> name,
               ann |-> IF IsAnnotation(name)
                       THEN AnnotationArgs(name, margs.ann, BumpCounter(cnt, name))
                       ELSE margs.ann,
               args |-> margs.args \cup (IF Passive(m) THEN {"passive"} ELSE {}) ]
        ELSE method

\* The entry of config_updated for this method once the method has been
\* handled.  The legacy branch stores the method_args dict itself, so what
\* is done to method_args later (the passive key) shows in that entry.
UpdatedEntry(step_name, method, cnt, fix_names, m) ==
    LET name == ResolveName(step_name, method.name, fix_names)
        margs == MethodArgs(method)
    IN  IF IsAnnotation(name)
        THEN [ form |-> "map", name |-> name,
               ann |-> AnnotationArgs(name, margs.ann, BumpCounter(cnt, name)),
               args |-> margs.args ]
        ELSE IF AliasFixed(step_name, method.name, fix_names)
        THEN [ form |-> "map", name |-> name, ann |-> margs.ann,
               args |-> margs.args \cup (IF Passive(m) THEN {"passive"} ELSE {}) ]
        ELSE method

\* a hand-over that leaves the annotation block among the arguments
InvocationKeepsBlock(step_name, method, cnt, fix_names, m) ==
    LET name == ResolveName(step_name, method.name, fix_names)
        margs == MethodArgs(method)
    IN  [ step |-> step_name,
          fun |-> name,
          fun_kwargs |->
              [ ann |-> margs.ann,
                args |-> margs.args \cup (IF Passive(m) THEN {"passive"} ELSE {}) ],
          annotation_kwargs |->
              IF IsAnnotation(name)
              THEN AnnotationArgs(name, margs.ann, BumpCounter(cnt, name))
              ELSE NoAnn ]

\* fun, fun_kwargs, annotation_kwargs handed to container.run
Invocation(step_name, method, cnt, fix_names, m) ==
    LET name == ResolveName(step_name, method.name, fix_names)
        margs == MethodArgs(method)
    IN  [ step |-> step_name,
          fun |-> name,
          fun_kwargs |->
              [ ann |-> IF IsAnnotation(name) THEN NoAnn ELSE margs.ann,
                args |-> margs.args \cup (IF Passive(m) THEN {"passive"} ELSE {}) ],
          annotation_kwargs |->
              IF IsAnnotation(name)
              THEN AnnotationArgs(name, margs.ann, BumpCounter(cnt, name))
              ELSE NoAnn ]

-----------------------------------------------------------------------------
(* utils.py, class Container *)

\* the keys of the annotation store that Container.run writes
StoreTypes == {"masks", "comments", "references", "contours"}

EmptyDict == [k \in {} |-> 0]

\* settings._annotation_function_dicts as imported: no annotation of any type
EmptyStore == [t \in StoreTypes |-> EmptyDict]

\* d[k] = v on a dict
Put(d, k, v) == [x \in DOMAIN d \cup {k} |-> IF x = k THEN v ELSE d[x]]

NoPrev == [type |-> Missing, id |-> Missing, payload |-> Missing]

\* a dict passed as kwargs: the document's arguments plus what run adds
EmptyKwargs == [ann |-> NoAnn, args |-> {}, prev |-> NoPrev, masks |-> FALSE]

\* Container.__init__
NewContainer(store_ref) ==
    [ image |-> "raw", image_copy |-> "raw", image_bin |-> "None", canvas |-> "None",
      store |-> store_ref, has_template |-> FALSE ]

\* a reset that forgets the canvas
ResetKeepsCanvas(c) == [c EXCEPT !.image = c.image_copy, !.image_bin = "None"]

\* Container.reset
Reset(c) == [c EXCEPT !.image = c.image_copy, !.image_bin = "None", !.canvas = "None"]

\* Container.select_canvas with multi=True: the buffer copied into the canvas;
\* a canvas taken from an unset binary buffer fails at the shape check
CanvasSource(c, canvas) ==
    CASE canvas = "mod" -> c.image
      [] canvas = "bin" -> c.image_bin
      [] OTHER -> c.image_copy

SelectCanvas(c, canvas) == [c EXCEPT !.canvas = CanvasSource(c, canvas)]

\* the annotation type whose entry run looks up for previous_annotation
PreviousType(fun) == "masks"

\* the first statement of run: kwargs.update({"previous_annotation": ...})
InjectPrevious(store, fun, annotation_id, kwargs) ==
    IF annotation_id \in DOMAIN store[PreviousType(fun)]
    THEN [kwargs EXCEPT !.prev = [ type |-> PreviousType(fun), id |-> annotation_id,
                                   payload |-> store[PreviousType(fun)][annotation_id] ]]
    ELSE kwargs

\* kwargs.update({"masks": ...}) of the threshold branch
InjectMasks(store, fun, kwargs) ==
    IF fun = "threshold" /\ DOMAIN store["masks"] # {}
    THEN [kwargs EXCEPT !.masks = TRUE]
    ELSE kwargs

\* the names run dispatches on
ImageFuns == {"blur", "select_channel", "threshold", "watershed", "morphology"}
StoreFuns == {"create_mask", "detect_mask", "enter_data", "detect_reference",
              "detect_contours"}

\* the store key under which run files what fun returns
StoreKey(fun) ==
    CASE fun \in {"create_mask", "detect_mask"} -> "masks"
      [] fun = "enter_data" -> "comments"
      [] fun = "detect_contours" -> "contours"
      [] fun = "detect_reference" -> "references"
      [] OTHER -> Missing

\* run reaches a call of an operation of phenopype.core
CallsOperation(c, fun) ==
    \/ fun \in ImageFuns
    \/ fun \in StoreFuns \ {"detect_reference"}
    \/ fun = "detect_reference" /\ c.has_template

\* the buffers after the operation returned
RunImage(c, fun) ==
    CASE fun = "threshold" -> [c EXCEPT !.image = "mod", !.image_bin = "mod"]
      [] fun \in ImageFuns \ {"threshold"} -> [c EXCEPT !.image = "mod"]
      [] OTHER -> c

\* the store after the operation returned out.payload
RunStore(store, fun, annotation_id, out) ==
    CASE fun \in {"create_mask", "detect_mask"} ->
            [store EXCEPT !["masks"] = Put(@, annotation_id, out.payload)]
      [] fun = "enter_data" ->
            [store EXCEPT !["comments"] = Put(@, annotation_id, out.payload)]
      [] fun = "detect_contours" ->
            [store EXCEPT !["contours"] = Put(@, annotation_id, out.payload)]
      [] fun = "detect_reference" ->
            [store EXCEPT !["masks"] = Put(@, annotation_id, out.payload),
                          !["references"] = Put(@, annotation_id, out.payload)]
      [] OTHER -> store

\* Container.run(fun, annotation_id, kwargs) with the outcome `out` of the
\* operation it calls: the container, the store and the kwargs dict after the
\* call, what the operation received, and whether the call raised.
Run(c, store, fun, annotation_id, kwargs, out) ==
    LET kw == InjectMasks(store, fun, InjectPrevious(store, fun, annotation_id, kwargs))
        called == CallsOperation(c, fun)
        ok == called /\ ~out.raises
    IN  [ c |-> IF ok THEN RunImage(c, fun) ELSE c,
          store |-> IF ok THEN RunStore(store, fun, annotation_id, out) ELSE store,
          kwargs |-> kw,
          called |-> called,
          raised |-> called /\ out.raises,
          received |-> IF called THEN kw ELSE EmptyKwargs ]

-----------------------------------------------------------------------------
(* Pype._iterate as a function of the document: the two loops over steps and
   methods, and the comparison that decides the rewrite *)

\* the loops of _iterate from step s, method k on: config_updated and
\* annotation_counter when the last method has been handled
RECURSIVE IterateFrom(_, _, _, _, _, _, _)
IterateFrom(doc, upd, cnt, s, k, fix_names, m) ==
    IF s > Len(doc) THEN [updated |-> upd, counter |-> cnt]
    ELSE IF doc[s].form # "list" \/ k > Len(doc[s].methods)
    THEN IterateFrom(doc, upd, cnt, s + 1, 1, fix_names, m)
    ELSE LET method == doc[s].methods[k]
             entry == UpdatedEntry(doc[s].name, method, cnt, fix_names, m)
         IN  IterateFrom(doc,
                         [upd EXCEPT ![s].methods[k] = entry],
                         BumpCounter(cnt, ResolveName(doc[s].name, method.name, fix_names)),
                         s, k + 1, fix_names, m)

\* a completed pass over doc: self.config_updated starts as a deep copy of
\* self.config and the counters at -1
IterateDocument(doc, fix_names, m) ==
    IterateFrom(doc, doc, CounterInit, 1, 1, fix_names, m)

\* a rewrite decided without the comparison
AlwaysChanged(cfg, upd) == TRUE

\* a pass that never rewrites the file
NeverChanged(cfg, upd) == FALSE

\* not self.config_updated == self.config
DocumentChanged(cfg, upd) == upd # cfg

\* the file at config_path after the comparison at the end of a pass
FileAfter(f, cfg, upd) == IF DocumentChanged(cfg, upd) THEN upd ELSE f

-----------------------------------------------------------------------------
(* bounds and the documents drawn from them *)

MaxSteps == 2      \* steps of a drawn document
MaxMethods == 2    \* methods of a step of a drawn document

Ann(type, id, edit) == [present |-> TRUE, type |-> type, id |-> id, edit |-> edit]
Method(form, name, ann, args) == [form |-> form, name |-> name, ann |-> ann, args |-> args]
Step(name, form, methods) == [name |-> name, form |-> form, methods |-> methods]

SeqsUpTo(S, n) == UNION {[1..k -> S] : k \in 0..n}

\* the step names of the drawn documents, in the order the templates list them
DocSteps == << "preprocessing", "segmentation", "visualization" >>

\* the methods a drawn step is made of
Pool ==
    [ preprocessing |->
        { Method("str", "create_mask", NoAnn, {}),
          Method("map", "create_mask", Ann(Missing, "b", Missing), {"k"}),
          Method("map", "enter_data", NoAnn, {"k"}),
          Method("str", "detect_shape", NoAnn, {}) },
      segmentation |->
        { Method("str", "detect_contours", NoAnn, {}),
          Method("map", "contour_to_mask", Ann(Missing, Missing, "overwrite"), {}) },
      visualization |->
        { Method("map", "draw_landmarks", NoAnn, {"k"}),
          Method("nil", "select_canvas", NoAnn, {}) } ]

StepSpace(name) ==
    { Step(name, "nil", << >>), Step(name, "str", << >>) }
    \cup { Step(name, "list", ms) : ms \in SeqsUpTo(Pool[name], MaxMethods) }

\* documents of at most n steps named DocSteps[i], DocSteps[i+1], ... in that order
RECURSIVE DocsFrom(_, _)
DocsFrom(i, n) ==
    IF n = 0 \/ i > Len(DocSteps) THEN { << >> }
    ELSE DocsFrom(i + 1, n)
         \cup { << st >> \o d : st \in StepSpace(DocSteps[i]), d \in DocsFrom(i + 1, n - 1) }

DocSpace == DocsFrom(1, MaxSteps)

-----------------------------------------------------------------------------
(* observations *)

\* the payloads an operation may return
Payloads == {"p1", "p2"}

\* YFM.content: nothing parsed yet, or a document
Empty == [empty |-> TRUE, doc |-> << >>]
Content(doc) == [empty |-> FALSE, doc |-> doc]

\* a call of run as observed: what was stored for (StoreKey(fun), id) before
\* it, and the previous_annotation and the masks the operation received
Call(c, store, fun, annotation_id, edit, r) ==
    [ op |-> "run", fun |-> fun, id |-> annotation_id, edit |-> edit,
      called |-> r.called, raised |-> r.raised,
      existed |-> StoreKey(fun) # Missing /\ annotation_id \in DOMAIN store[StoreKey(fun)],
      before |-> IF StoreKey(fun) # Missing /\ annotation_id \in DOMAIN store[StoreKey(fun)]
                 THEN store[StoreKey(fun)][annotation_id] ELSE Missing,
      received |-> r.received.prev,
      masks |-> r.received.masks,
      buffers |-> c ]

NoCall ==
    [ op |-> Missing, fun |-> Missing, id |-> Missing, edit |-> Missing,
      called |-> FALSE, raised |-> FALSE, existed |-> FALSE, before |-> Missing,
      received |-> NoPrev, masks |-> FALSE, buffers |-> NewContainer(Missing) ]

HistInit ==
    [ passes |-> 0,        \* passes started (SpecIterate), execute passes started (Spec)
      saved |-> FALSE,     \* the last completed pass wrote the file
      input |-> << >>,     \* the document the first pass was given
      env |-> "ok",        \* what the constructor finds on disk
      monitor |-> FALSE,   \* a file monitor is running
      edits |-> 0,         \* edits the user has saved
      snapshot |-> << >>,  \* self.config when the pass began
      trace |-> << >>,     \* the funs handed to container.run by the method loop of the pass
      raised |-> 0,        \* the invocations of the pass that raised
      log0 |-> 0,          \* len(self.log) when the pass began
      gates |-> 0,         \* presentations to the GUI in the pass
      resets |-> 0,        \* calls of container.reset() in the pass
      user_file |-> FALSE, \* the file holds what the user saved during the session
      retried |-> FALSE,   \* the loop has retried since the last pass
      handed |-> << >>,    \* the last call of the method loop in the pass: the
                           \* method, its position and what was handed over
      auto |-> << >>,      \* the implicit select_canvas calls of the pass: the step
                           \* and the number of invocations made before
      verdict |-> Missing, \* what the GUI did with the canvas of the pass
      skip |-> FALSE,      \* skip was set and the precheck found the files
      exports |-> 0,       \* calls of container.save
      export_list |-> << >>,
      calls |-> 0,         \* calls made by the script (SpecContainer)
      last |-> NoCall ]    \* the last call of a Container method

\* the flags of an _iterate call
Mode(execute, visualize, feedback) ==
    [execute |-> execute, visualize |-> visualize, feedback |-> feedback]

\* a counter that lives across passes instead of being created in each
CarriedCounter(previous) == previous

\* annotation_counter at the start of a pass, whatever the last pass left
FreshCounter(previous) == CounterInit

-----------------------------------------------------------------------------
(* SpecIterate: _iterate applied to drawn documents, then to its own output *)

InitIterate ==
    /\ pc = "pass"
    /\ config \in DocSpace
    /\ config_updated = config
    /\ file = config
    /\ \E fix \in BOOLEAN :
          flags = [ debug |-> FALSE, autosave |-> FALSE, feedback |-> FALSE,
                    dry_run |-> FALSE,
                    fix_names |-> fix, visualize |-> FALSE ]
    /\ mode \in { Mode(FALSE, FALSE, FALSE), Mode(TRUE, FALSE, FALSE) }
    /\ terminate = FALSE
    /\ parsed = EmptyDict
    /\ yfm = Empty
    /\ si = 1 /\ mi = 1
    /\ counter = CounterInit
    /\ log = << >>
    /\ pype_restart = FALSE
    /\ container = NewContainer("session")
    /\ stores = [r \in {"session"} |-> EmptyStore]
    /\ run_defaults = EmptyKwargs
    /\ hist = [HistInit EXCEPT !.input = config]
    /\ root_dir = NoDirectory
    /\ project = NoProject

\* one completed pass of _iterate over self.config
Pass ==
    /\ pc = "pass"
    /\ LET r == IterateFrom(config, config, FreshCounter(counter), 1, 1,
                            flags.fix_names, mode)
       IN  /\ config_updated' = r.updated
           /\ counter' = r.counter
           /\ file' = FileAfter(file, config, r.updated)
           /\ hist' = [hist EXCEPT !.passes = @ + 1,
                                   !.saved = DocumentChanged(config, r.updated)]
    /\ pc' = "returned"
    /\ UNCHANGED <<flags, terminate, config, parsed, yfm, mode, si, mi, log,
                   pype_restart, container, stores, run_defaults>>
    /\ UNCHANGED <<root_dir, project>>

\* the updated document is given to _iterate again
Again ==
    /\ pc = "returned"
    /\ hist.passes < 2
    /\ config' = config_updated
    /\ pc' = "pass"
    /\ UNCHANGED <<flags, terminate, config_updated, parsed, file, yfm, mode, si, mi,
                   counter, log, pype_restart, container, stores, run_defaults, hist>>
    /\ UNCHANGED <<root_dir, project>>

NextIterate == Pass \/ Again

SpecIterate == InitIterate /\ [][NextIterate]_vars

-----------------------------------------------------------------------------
(* properties of a pass as a function of the document (SpecIterate) *)

\* the (step, method) positions of a document's methods
Positions(doc) ==
    UNION { { <<s, k>> : k \in 1..Len(doc[s].methods) } :
            s \in { x \in 1..Len(doc) : doc[x].form = "list" } }

Before(q, p) == q[1] < p[1] \/ (q[1] = p[1] /\ q[2] < p[2])

At(doc, p) == doc[p[1]].methods[p[2]]

HasExplicitId(doc, p) ==
    At(doc, p).form = "map" /\ At(doc, p).ann.present /\ At(doc, p).ann.id # Missing

\* the positions before p whose method produces the annotation type of p
SameTypeBefore(upd, p) ==
    { q \in Positions(upd) :
        /\ Before(q, p)
        /\ IsAnnotation(At(upd, q).name)
        /\ AnnotationFunctions[At(upd, q).name] = AnnotationFunctions[At(upd, p).name] }

\* the positions of the input whose id the pass has to default
Defaulted(doc, upd) ==
    { p \in Positions(doc) : IsAnnotation(At(upd, p).name) /\ ~HasExplicitId(doc, p) }

CreateMaskDoc ==
    << Step("preprocessing", "list", << Method("str", "create_mask", NoAnn, {}) >>) >>

CreateMaskNormalized ==
    << Step("preprocessing", "list",
            << Method("map", "create_mask", Ann("mask", "a", "False"), {}) >>) >>

\* C2: the updated document of a completed pass, given to _iterate again,
\* yields an updated document equal to its input and no save; the document
\* whose only method is a bare create_mask is rewritten once, with the block
\* (type mask, id a, edit False), and not by the second pass.
C2_Fixpoint ==
    /\ (pc = "returned" /\ hist.passes = 2) =>
          /\ config_updated = config
          /\ ~hist.saved
          /\ file = config
    /\ (pc = "returned" /\ hist.passes = 1 /\ hist.input = CreateMaskDoc) =>
          /\ hist.saved
          /\ file = CreateMaskNormalized

\* C2 witness: the second pass over the rewritten create_mask document is done.
C2_Witness ==
    /\ pc = "returned"
    /\ hist.passes = 2
    /\ hist.input = CreateMaskDoc
    /\ file = CreateMaskNormalized

\* the positions of a document whose method name is a legacy name of its step
LegacyPositions(doc) ==
    { p \in Positions(doc) :
        /\ ~Exists(doc[p[1]].name, At(doc, p).name)
        /\ At(doc, p).name \in DOMAIN LegacyNames[doc[p[1]].name] }

\* C3 as stated: with alias fixing on, after one pass every legacy name is
\* replaced by its current equivalent in the persisted document with its
\* arguments kept, and a second pass changes nothing further.
C3_AliasStable ==
    (pc = "returned" /\ flags.fix_names) =>
        /\ \A p \in LegacyPositions(hist.input) :
              /\ At(file, p).name = LegacyNames[hist.input[p[1]].name][At(hist.input, p).name]
              /\ At(file, p).args = MethodArgs(At(hist.input, p)).args
        /\ hist.passes = 2 => ~hist.saved

-----------------------------------------------------------------------------
(* Spec: the Pype session, Pype.__init__ with the passes of _iterate it runs,
   the user's editor and the file monitor *)

MaxEdits == 1     \* edits the user saves during a session
MaxCycles == 2    \* execute passes of a session

\* the documents a session starts from and the user saves
SessionDocs ==
    { << Step("preprocessing", "list",
              << Method("str", "create_mask", NoAnn, {}) >>),
         Step("segmentation", "list", << Method("map", "threshold", NoAnn, {"k"}) >>),
         Step("visualization", "list", << >>) >>,
      << Step("preprocessing", "list",
              << Method("map", "create_mask", Ann("mask", "a", "False"), {}) >>),
         Step("visualization", "nil", << >>),
         Step("visualization", "list", << Method("map", "draw_landmarks", NoAnn, {"k"}) >>),
         Step("export", "list", << Method("str", "save_canvas", NoAnn, {}) >>) >>,
      << Step("segmentation", "list",
              << Method("map", "detect_contours", Ann(Missing, "b", Missing), {}),
                 Method("str", "blur", NoAnn, {}) >>),
         Step("visualization", "list", << Method("str", "select_canvas", NoAnn, {}) >>) >> }

\* what the constructor may find
Envs == {"ok", "missing_path", "bad_type", "no_config", "locked", "no_image",
         "no_dir_path"}

\* the flags a session is constructed with; the keyword dry_run is drawn
\* for the sessions without feedback, with one pass or with several
FlagSpace ==
    [ debug : BOOLEAN, autosave : BOOLEAN, feedback : BOOLEAN,
      fix_names : BOOLEAN, visualize : BOOLEAN, dry_run : {FALSE} ]
    \cup [ debug : {FALSE}, autosave : {FALSE}, feedback : {FALSE},
           fix_names : {FALSE}, visualize : BOOLEAN, dry_run : {TRUE} ]

Init ==
    /\ pc = "construct"
    /\ flags \in FlagSpace
    /\ terminate = FALSE
    /\ file \in SessionDocs
    /\ config = << >>
    /\ config_updated = << >>
    /\ parsed = EmptyDict
    /\ yfm = Empty
    /\ mode = Mode(FALSE, FALSE, FALSE)
    /\ si = 1 /\ mi = 1
    /\ counter = CounterInit
    /\ log = << >>
    /\ pype_restart = FALSE
    /\ container = NewContainer("session")
    /\ stores = [r \in {"session"} |-> EmptyStore]
    /\ run_defaults = EmptyKwargs
    /\ hist = HistInit
    /\ root_dir = NoDirectory
    /\ project = NoProject

\* _load_container and _load_pype_config raise
FailsAtLoad(env) == env \in {"missing_path", "bad_type", "no_config", "locked"}

\* a final check that lets every session through
ChecksNothing(env) == FALSE

\* _check_final raises
FailsAtFinalCheck(env) == env \in {"no_image", "no_dir_path"}

\* a constructor that never leaves at the skip precheck
SkipsNever(skip, found) == FALSE

\* self.flags.skip is set and _check_directory_skip returns True
Skips(skip, found) == skip /\ found

\* Pype.__init__ up to the call of the dry pass
Construct ==
    /\ pc = "construct"
    /\ \E env \in Envs, skip \in BOOLEAN, found \in BOOLEAN :
          /\ hist' = [hist EXCEPT !.env = env,
                                  !.skip = skip /\ found,
                                  !.snapshot = IF FailsAtLoad(env) THEN @ ELSE file]
          /\ IF FailsAtLoad(env)
             THEN pc' = "failed" /\ UNCHANGED config
             ELSE IF Skips(skip, found)
             THEN pc' = "skipped" /\ config' = file
             ELSE pc' = "begin" /\ config' = file
    /\ mode' = Mode(FALSE, FALSE, FALSE)
    /\ UNCHANGED <<flags, terminate, config_updated, parsed, file, yfm, si, mi, counter,
                   log, pype_restart, container, stores, run_defaults>>
    /\ UNCHANGED <<root_dir, project>>

\* a pass that walks the monitor's content instead of its own copy
PassDocumentLive == IF yfm.empty THEN config ELSE yfm.doc

\* the document the loops of the pass walk: step_list = self.config[...]
PassDocument == config

\* _iterate up to the loop over the steps
\* if not self.flags.dry_run: self.container.reset()
ResetsAtBegin(fl) == ~fl.dry_run

IterateBegin ==
    /\ pc = "begin"
    /\ container' = IF ResetsAtBegin(flags) THEN Reset(container) ELSE container
    /\ counter' = FreshCounter(counter)
    /\ config_updated' = config
    /\ parsed' = EmptyDict
    /\ si' = 1 /\ mi' = 1
    /\ pc' = "step"
    /\ hist' = [hist EXCEPT !.passes = IF mode.execute THEN @ + 1 ELSE @,
                            !.trace = << >>, !.raised = 0,
                            !.log0 = Len(log), !.gates = 0, !.saved = FALSE,
                            !.auto = << >>, !.handed = << >>,
                            !.resets = IF ResetsAtBegin(flags) THEN 1 ELSE 0,
                            !.verdict = Missing]
    /\ UNCHANGED <<flags, terminate, config, file, yfm, mode, log, pype_restart,
                   stores, run_defaults>>
    /\ UNCHANGED <<root_dir, project>>

\* an engine that never calls select_canvas by itself
AutoselectNever(step, c, m) == FALSE

\* container.run("select_canvas") is called on entering this step
Autoselect(step, c, m) ==
    /\ step.name = "visualization"
    /\ m.execute
    /\ c.canvas = "None"
    /\ \A k \in 1..Len(step.methods) : step.methods[k].name # "select_canvas"

NoOutcome == [raises |-> FALSE, payload |-> "p1", restart |-> FALSE]

\* the head of the loop over the steps, up to the loop over the step's methods
IterateStep ==
    /\ pc = "step"
    /\ IF si > Len(PassDocument)
       THEN /\ pc' = "finish"
            /\ UNCHANGED <<parsed, si, mi, run_defaults, hist>>
       ELSE LET step == PassDocument[si]
            IN  /\ parsed' = IF step.form = "str" THEN parsed
                             ELSE Put(parsed, step.name, << >>)
                /\ IF step.form = "list" /\ Len(step.methods) > 0
                   THEN pc' = "method" /\ si' = si /\ mi' = 1
                   ELSE pc' = "step" /\ si' = si + 1 /\ mi' = 1
                /\ run_defaults' =
                      IF step.form = "list" /\ Autoselect(step, container, mode)
                      THEN Run(container, stores[container.store], "select_canvas",
                               "None", run_defaults, NoOutcome).kwargs
                      ELSE run_defaults
                /\ hist' = IF step.form = "list" /\ Autoselect(step, container, mode)
                           THEN [hist EXCEPT !.auto =
                                    Append(@, [si |-> si, at |-> Len(hist.trace)])]
                           ELSE hist
    /\ UNCHANGED <<flags, terminate, config, config_updated, file, yfm, mode, counter,
                   log, pype_restart, container, stores>>
    /\ UNCHANGED <<root_dir, project>>

\* what the operation called by an invocation may do
Outcomes(called) ==
    IF called
    THEN { [raises |-> r, payload |-> p, restart |-> b] :
             r \in BOOLEAN, p \in Payloads, b \in BOOLEAN } \
         { [raises |-> TRUE, payload |-> "p2", restart |-> b] : b \in BOOLEAN }
    ELSE { NoOutcome }

\* the class name of what an operation raises
ErrorKind(fun) == "Exception"

\* self.log after an invocation: self.log.append(ex)
LogAfter(lg, raised, ex) == IF raised THEN Append(lg, ex) ELSE lg

\* an error that never leaves _iterate
PropagatesNever(raised, debug) == FALSE

\* an error that leaves _iterate whatever the debug flag
PropagatesAlways(raised, debug) == raised

\* the error of an invocation leaves _iterate
Propagates(raised, debug) == raised /\ debug

\* an entry of the input document that is the dict the method body writes to
InputEntryShared(method, written) ==
    IF method.form = "map"
    THEN [method EXCEPT !.ann = written.ann, !.args = written.args]
    ELSE method

\* the entry of the input document after the method body wrote to
\* method_args: method_args = dict(...) and annotation_args = dict(...) are
\* copies, so the entry is as it was
InputEntryAfter(method, written) == method

\* the position after method mi of step si
NextPc(doc) == IF mi < Len(doc[si].methods) THEN "method" ELSE "step"
NextSi(doc) == IF mi < Len(doc[si].methods) THEN si ELSE si + 1
NextMi(doc) == IF mi < Len(doc[si].methods) THEN mi + 1 ELSE 1

\* the body of the loop over the methods, for the method at (si, mi).  The
\* call at main.py:1396 names its arguments fun_kwargs and annotation_kwargs;
\* run takes them as kwargs and, through the block's id, as annotation_id.
\* a pass that goes on after the signal
ReturnsNever(restart) == FALSE

\* if _config.pype_restart: return
Returns(restart) == restart

IterateMethod ==
    /\ pc = "method"
    /\ LET step == PassDocument[si]
           method == step.methods[mi]
           name == ResolveName(step.name, method.name, flags.fix_names)
           inv == Invocation(step.name, method, counter, flags.fix_names, mode)
           annotation_id == IF inv.annotation_kwargs.present
                            THEN inv.annotation_kwargs.id ELSE "None"
           kwargs == [EmptyKwargs EXCEPT !.ann = inv.fun_kwargs.ann,
                                         !.args = inv.fun_kwargs.args]
       IN  /\ config' = [config EXCEPT ![si].methods[mi] =
                                InputEntryAfter(method, inv.fun_kwargs)]
           /\ config_updated' =
                 [config_updated EXCEPT ![si].methods[mi] =
                     UpdatedEntry(step.name, method, counter, flags.fix_names, mode)]
           /\ parsed' = IF Exists(step.name, method.name)
                        THEN [parsed EXCEPT ![step.name] = Append(@, method.name)]
                        ELSE parsed
           /\ counter' = BumpCounter(counter, name)
           /\ IF mode.execute
              THEN \E out \in Outcomes(CallsOperation(container, inv.fun)) :
                     LET r == Run(container, stores[container.store], inv.fun,
                                  annotation_id, kwargs, out)
                         restart == pype_restart \/ (r.called /\ out.restart)
                     IN  /\ container' = r.c
                         /\ stores' = [stores EXCEPT ![container.store] = r.store]
                         /\ log' = IF Propagates(r.raised, flags.debug) THEN log
                                   ELSE LogAfter(log, r.raised, ErrorKind(inv.fun))
                         /\ pype_restart' = restart
                         /\ hist' = [hist EXCEPT
                                        !.trace = Append(@, inv.fun),
                                        !.handed = << [q |-> <<si, mi>>, method |-> method,
                                                       inv |-> inv] >>,
                                        !.raised = IF r.raised THEN @ + 1 ELSE @,
                                        !.last = Call(container, stores[container.store],
                                                      inv.fun, annotation_id,
                                                      inv.annotation_kwargs.edit, r)]
                         /\ IF Propagates(r.raised, flags.debug)
                            THEN pc' = "failed" /\ UNCHANGED <<si, mi>>
                            ELSE IF Returns(restart)
                            THEN pc' = "tail" /\ UNCHANGED <<si, mi>>
                            ELSE /\ pc' = NextPc(PassDocument)
                                 /\ si' = NextSi(PassDocument)
                                 /\ mi' = NextMi(PassDocument)
              ELSE /\ pc' = NextPc(PassDocument)
                   /\ si' = NextSi(PassDocument)
                   /\ mi' = NextMi(PassDocument)
                   /\ UNCHANGED <<container, stores, log, pype_restart, hist>>
    /\ UNCHANGED <<flags, terminate, file, yfm, mode, run_defaults>>
    /\ UNCHANGED <<root_dir, project>>

\* what the GUI may do with the canvas: raise, or return with end_pype set or not
Verdicts == {"raise", "end", "continue"}

\* a terminate flag that is also set when the GUI raises
TerminateOnRaise(t, m, verdict) ==
    IF m.visualize /\ m.feedback
    THEN verdict # "continue"
    ELSE IF m.execute THEN TRUE ELSE t

\* self.flags.terminate after the last block of _iterate
TerminateAfter(t, m, verdict) ==
    IF m.visualize /\ m.feedback
    THEN IF verdict = "raise" THEN t ELSE verdict = "end"
    ELSE IF m.execute THEN TRUE ELSE t

\* _iterate after the loops: the rewrite, the GUI, the terminate flag
IterateFinish ==
    /\ pc = "finish"
    /\ file' = FileAfter(file, config, config_updated)
    /\ \E verdict \in IF mode.visualize /\ mode.feedback THEN Verdicts ELSE {"continue"} :
          /\ terminate' = TerminateAfter(terminate, mode, verdict)
          /\ run_defaults' =
                IF mode.visualize /\ mode.feedback /\ container.canvas = "None"
                THEN Run(container, stores[container.store], "select_canvas", "None",
                         run_defaults, NoOutcome).kwargs
                ELSE run_defaults
          /\ hist' = [hist EXCEPT
                         !.saved = DocumentChanged(config, config_updated),
                         !.user_file = @ /\ ~DocumentChanged(config, config_updated),
                         !.gates = IF mode.visualize /\ mode.feedback THEN @ + 1 ELSE @,
                         !.verdict = IF mode.visualize /\ mode.feedback
                                     THEN verdict ELSE @]
    /\ pc' = IF mode.execute THEN "tail" ELSE "start"
    /\ UNCHANGED <<flags, config, config_updated, parsed, yfm, mode, si, mi, counter,
                   log, pype_restart, container, stores>>
    /\ UNCHANGED <<root_dir, project>>

\* Pype.__init__ between the dry pass and the loop
StartLoop ==
    /\ pc = "start"
    /\ IF FailsAtFinalCheck(hist.env)
       THEN pc' = "failed" /\ UNCHANGED <<yfm, log, hist>>
       ELSE /\ pc' = "top"
            /\ log' = << >>
            /\ IF flags.feedback /\ flags.visualize
               THEN /\ \E c \in {Empty, Content(file)} : yfm' = c
                    /\ hist' = [hist EXCEPT !.monitor = TRUE]
               ELSE UNCHANGED <<yfm, hist>>
    /\ UNCHANGED <<flags, terminate, config, config_updated, parsed, file, mode, si, mi,
                   counter, pype_restart, container, stores, run_defaults>>
    /\ UNCHANGED <<root_dir, project>>

\* a restart flag that survives into the next cycle
RestartKept(restart) == restart

\* _config.pype_restart = False at the head of the loop body
RestartAtTop(restart) == FALSE

\* self.config for the pass of this cycle: copy.deepcopy(self.YFM.content)
\* in the interactive mode, else the document loaded by the constructor
Refreshed(cfg, content, fl) == IF fl.feedback /\ fl.visualize THEN content.doc ELSE cfg

\* a loop that goes on whatever the monitor holds
RetriesNever(fl, content) == FALSE

\* the cycle ends at the first continue: interactive mode and not self.YFM.content
Retries(fl, content) == fl.feedback /\ fl.visualize /\ content.empty

\* the head of the loop body, up to the call of _iterate
LoopTop ==
    /\ pc = "top"
    /\ hist.passes < MaxCycles
    /\ ~Retries(flags, yfm)
    /\ pype_restart' = RestartAtTop(pype_restart)
    /\ config' = Refreshed(config, yfm, flags)
    /\ mode' = Mode(TRUE, flags.visualize, flags.feedback)
    /\ pc' = "begin"
    /\ hist' = [hist EXCEPT !.snapshot = Refreshed(config, yfm, flags),
                            !.retried = FALSE]
    /\ UNCHANGED <<flags, terminate, config_updated, parsed, file, yfm, si, mi, counter,
                   log, container, stores, run_defaults>>
    /\ UNCHANGED <<root_dir, project>>

\* the head of the loop body when the monitor has no content: a new monitor, continue
LoopRetry ==
    /\ pc = "top"
    /\ Retries(flags, yfm)
    /\ pype_restart' = RestartAtTop(pype_restart)
    /\ \E c \in {Empty, Content(file)} : yfm' = c
    /\ pc' = "top"
    /\ hist' = [hist EXCEPT !.retried = TRUE]
    /\ UNCHANGED <<flags, terminate, config, config_updated, parsed, file, mode, si, mi,
                   counter, log, container, stores, run_defaults>>
    /\ UNCHANGED <<root_dir, project>>

\* a loop that is left on the terminate flag alone
BreaksOnTerminate(visualize, t) == t

\* a loop that is never left
BreaksNever(visualize, t) == FALSE

\* the loop leaves after this pass
Breaks(visualize, t) == IF visualize THEN t ELSE TRUE

\* an export list made of the steps that had a method resolved
ExportSteps ==
    LET names == { s \in DOMAIN parsed : parsed[s] # << >> }
    IN  IF names = {} THEN << >> ELSE << CHOOSE s \in names : TRUE >>

\* export_list as handed to container.save
ExportList == IF "export" \in DOMAIN parsed THEN parsed["export"] ELSE << >>

\* a session that exports whenever autosave is set
AutosavesAlways(autosave, t) == autosave

\* if self.flags.autosave and self.flags.terminate
Autosaves(autosave, t) == autosave /\ t

\* the end of the loop body and, when the loop is left, the autosave
LoopTail ==
    /\ pc = "tail"
    /\ IF Breaks(flags.visualize, terminate)
       THEN /\ pc' = "done"
            /\ hist' = [hist EXCEPT
                           !.monitor = IF flags.visualize THEN FALSE ELSE @,
                           !.exports = IF Autosaves(flags.autosave, terminate)
                                       THEN @ + 1 ELSE @,
                           !.export_list = IF Autosaves(flags.autosave, terminate)
                                           THEN ExportList ELSE @]
       ELSE pc' = "top" /\ UNCHANGED hist
    /\ UNCHANGED <<flags, terminate, config, config_updated, parsed, file, yfm, mode,
                   si, mi, counter, log, pype_restart, container, stores, run_defaults>>
    /\ UNCHANGED <<root_dir, project>>

\* the user saves the document in the editor; while no monitor runs nothing
\* reads the file during a pass, and an edit made during the pass is taken
\* where the pass ends
UserEdit ==
    /\ hist.monitor \/ pc = "finish"
    /\ hist.edits < MaxEdits
    /\ \E d \in SessionDocs : d # file /\ file' = d
    /\ hist' = [hist EXCEPT !.edits = @ + 1, !.user_file = TRUE]
    /\ UNCHANGED <<pc, flags, terminate, config, config_updated, parsed, yfm, mode,
                   si, mi, counter, log, pype_restart, container, stores, run_defaults>>
    /\ UNCHANGED <<root_dir, project>>

\* the file monitor publishes what it parsed from the file
WatcherPublish ==
    /\ hist.monitor
    /\ yfm # Content(file)
    /\ yfm' = Content(file)
    /\ UNCHANGED <<pc, flags, terminate, config, config_updated, parsed, file, mode,
                   si, mi, counter, log, pype_restart, container, stores, run_defaults,
                   hist>>
    /\ UNCHANGED <<root_dir, project>>

Next ==
    \/ Construct
    \/ IterateBegin
    \/ IterateStep
    \/ IterateMethod
    \/ IterateFinish
    \/ StartLoop
    \/ LoopTop
    \/ LoopRetry
    \/ LoopTail
    \/ UserEdit
    \/ WatcherPublish

Spec == Init /\ [][Next]_vars

\* the steps of the thread that runs the constructor and its loop
Engine ==
    \/ Construct
    \/ IterateBegin
    \/ IterateStep
    \/ IterateMethod
    \/ IterateFinish
    \/ StartLoop
    \/ LoopTop
    \/ LoopRetry
    \/ LoopTail

\* a session in the interactive visual mode, with the document as written
\* and without the save at the end
InitLive ==
    /\ Init
    /\ flags.feedback /\ flags.visualize
    /\ ~flags.autosave /\ ~flags.fix_names

\* the session of a user who leaves the document as it is
NextLive == Engine \/ WatcherPublish

\* the interactive sessions in which the thread of the loop keeps running and
\* the monitor publishes what it has read
SpecLive == InitLive /\ [][NextLive]_vars /\ WF_vars(Engine) /\ WF_vars(WatcherPublish)

-----------------------------------------------------------------------------
(* SpecContainer: a script that uses Container objects directly *)

MaxCalls == 4    \* calls the script makes

ContainerIds == {"c1", "c2"}
ScriptFuns == {"create_mask", "enter_data", "threshold", "select_canvas"}
ScriptIds == {"a", "None"}

Uncreated == NewContainer(Missing)

InitContainer ==
    /\ pc = "script"
    /\ container = [c \in ContainerIds |->
                       IF c = "c1" THEN NewContainer("global") ELSE Uncreated]
    /\ stores = [r \in {"global"} |-> EmptyStore]
    /\ run_defaults = EmptyKwargs
    /\ hist = HistInit
    /\ flags = [ debug |-> FALSE, autosave |-> FALSE, feedback |-> FALSE,
                    dry_run |-> FALSE,
                 fix_names |-> FALSE, visualize |-> FALSE ]
    /\ terminate = FALSE
    /\ config = << >> /\ config_updated = << >> /\ file = << >>
    /\ parsed = EmptyDict
    /\ yfm = Empty
    /\ mode = Mode(FALSE, FALSE, FALSE)
    /\ si = 1 /\ mi = 1
    /\ counter = CounterInit
    /\ log = << >>
    /\ pype_restart = FALSE
    /\ root_dir = NoDirectory
    /\ project = NoProject

Created(c) == container[c].store # Missing

\* Container(image): self.annotations = _annotation_function_dicts
ContainerNew(c) ==
    /\ ~Created(c)
    /\ hist.calls < MaxCalls
    /\ container' = [container EXCEPT ![c] = NewContainer("global")]
    /\ hist' = [hist EXCEPT !.calls = @ + 1,
                            !.last = [NoCall EXCEPT !.op = "new", !.id = c]]
    /\ UNCHANGED <<pc, flags, terminate, config, config_updated, parsed, file, yfm, mode,
                   si, mi, counter, log, pype_restart, stores, run_defaults>>
    /\ UNCHANGED <<root_dir, project>>

\* c.run(fun, annotation_id) with the default kwargs, or with a dict of the caller
ContainerRun(c, fun, annotation_id, own_kwargs) ==
    /\ Created(c)
    /\ hist.calls < MaxCalls
    /\ \E out \in { o \in Outcomes(CallsOperation(container[c], fun)) : ~o.restart } :
          LET kwargs == IF own_kwargs THEN EmptyKwargs ELSE run_defaults
              r == Run(container[c], stores[container[c].store], fun, annotation_id,
                       kwargs, out)
          IN  /\ container' = [container EXCEPT ![c] = r.c]
              /\ stores' = [stores EXCEPT ![container[c].store] = r.store]
              /\ run_defaults' = IF own_kwargs THEN run_defaults ELSE r.kwargs
              /\ hist' = [hist EXCEPT
                             !.calls = @ + 1,
                             !.last = Call(container[c], stores[container[c].store],
                                           fun, annotation_id, Missing, r)]
    /\ UNCHANGED <<pc, flags, terminate, config, config_updated, parsed, file, yfm, mode,
                   si, mi, counter, log, pype_restart>>
    /\ UNCHANGED <<root_dir, project>>

\* c.select_canvas(canvas)
ContainerSelectCanvas(c, canvas) ==
    /\ Created(c)
    /\ hist.calls < MaxCalls
    /\ container' = [container EXCEPT ![c] = SelectCanvas(container[c], canvas)]
    /\ hist' = [hist EXCEPT !.calls = @ + 1,
                            !.last = [NoCall EXCEPT !.op = "select_canvas", !.id = c,
                                                    !.buffers = container[c]]]
    /\ UNCHANGED <<pc, flags, terminate, config, config_updated, parsed, file, yfm, mode,
                   si, mi, counter, log, pype_restart, stores, run_defaults>>
    /\ UNCHANGED <<root_dir, project>>

\* c.reset()
ContainerReset(c) ==
    /\ Created(c)
    /\ hist.calls < MaxCalls
    /\ container' = [container EXCEPT ![c] = Reset(container[c])]
    /\ hist' = [hist EXCEPT !.calls = @ + 1,
                            !.last = [NoCall EXCEPT !.op = "reset", !.id = c,
                                                    !.buffers = container[c]]]
    /\ UNCHANGED <<pc, flags, terminate, config, config_updated, parsed, file, yfm, mode,
                   si, mi, counter, log, pype_restart, stores, run_defaults>>
    /\ UNCHANGED <<root_dir, project>>

NextContainer ==
    \/ \E c \in ContainerIds : ContainerNew(c)
    \/ \E c \in ContainerIds, fun \in ScriptFuns, id \in ScriptIds, own \in BOOLEAN :
          ContainerRun(c, fun, id, own)
    \/ \E c \in ContainerIds, canvas \in {"mod", "raw", "bin"} :
          ContainerSelectCanvas(c, canvas)
    \/ \E c \in ContainerIds : ContainerReset(c)

SpecContainer == InitContainer /\ [][NextContainer]_vars

-----------------------------------------------------------------------------
(* properties of the session (Spec) *)

\* the methods of the pass's document before the position the pass is at
Done == { q \in Positions(config) : Before(q, <<si, mi>>) }

InPass == pc \in {"step", "method", "finish"}

\* C4: without the debug flag an error raised by an operation never keeps a
\* later method or step of the pass from being invoked, and each failing
\* invocation appends exactly one entry to the log.
C4_FailureIsolation ==
    ~flags.debug =>
        /\ (InPass /\ mode.execute) => Len(hist.trace) = Cardinality(Done)
        /\ (pc = "tail" /\ ~pype_restart) =>
              Len(hist.trace) = Cardinality(Positions(config))
        /\ (InPass \/ pc = "tail") /\ mode.execute =>
              Len(log) = hist.log0 + hist.raised
        /\ pc = "failed" => hist.passes = 0

\* C4 witness: a pass without debug has completed in which every one of at
\* least two invocations raised.
C4_Witness ==
    /\ pc = "tail" /\ ~pype_restart /\ ~flags.debug
    /\ Len(hist.trace) >= 2
    /\ hist.raised = Len(hist.trace)

\* the funs the method loop hands to container.run for the methods of doc
\* that precede position p
RECURSIVE ExpectedTrace(_, _, _, _)
ExpectedTrace(doc, s, k, p) ==
    IF s > Len(doc) \/ ~Before(<<s, k>>, p) THEN << >>
    ELSE IF doc[s].form # "list" \/ k > Len(doc[s].methods)
    THEN ExpectedTrace(doc, s + 1, 1, p)
    ELSE << ResolveName(doc[s].name, doc[s].methods[k].name, flags.fix_names) >>
         \o ExpectedTrace(doc, s, k + 1, p)

\* C5: the document a pass iterates over is the copy taken at the top of the
\* cycle: a monitor update during the pass changes neither the methods the
\* pass executes nor the document it compares and rewrites, and the next
\* cycle starts from the monitor's newest content.
C5_SnapshotIsolation ==
    /\ [](/\ (pc \in {"begin", "step", "method", "finish", "tail"}) =>
                config = hist.snapshot
          /\ (InPass /\ mode.execute) =>
                hist.trace = ExpectedTrace(hist.snapshot, 1, 1, <<si, mi>>)
          /\ pc = "finish" =>
                config_updated =
                    IterateDocument(hist.snapshot, flags.fix_names, mode).updated)
    /\ [][(pc = "top" /\ pc' = "begin" /\ flags.feedback /\ flags.visualize) =>
              config' = yfm.doc]_vars

\* C5 witness: a pass that has invoked methods is at its end while the
\* monitor already holds another document than the one the pass began with.
C5_Witness ==
    /\ pc = "finish" /\ mode.execute
    /\ ~yfm.empty /\ yfm.doc # hist.snapshot
    /\ Len(hist.trace) > 0

\* C6 as stated: a restart signal raised during a pass keeps every later
\* method of the pass from being invoked and aborts that pass only: the
\* session does not terminate, and the signal is cleared before the next pass.
C6_RestartAbortsPassOnly ==
    /\ (InPass \/ pc = "begin") => ~pype_restart
    /\ pc = "done" => ~pype_restart

\* C6 (amended): the signal keeps every later method of the pass from being
\* invoked and is cleared at the top of every cycle, so it never cuts a
\* later pass short; with visualize set only that pass is aborted and the
\* loop goes on, with visualize unset the loop is left after the aborted pass.
C6_RestartInVisualMode ==
    /\ (InPass \/ (pc = "begin" /\ mode.execute)) => ~pype_restart
    /\ (pc = "tail" /\ pype_restart /\ flags.visualize) => ~Breaks(flags.visualize, terminate)
    /\ (pc = "done" /\ pype_restart) => ~flags.visualize

\* C6 witness: a pass in visual mode was cut short by the signal with
\* methods left.
C6_Witness ==
    /\ pc = "tail" /\ pype_restart /\ flags.visualize
    /\ Len(hist.trace) < Cardinality(Positions(config))

C10_OnePassWithoutVisualize ==
    ~flags.visualize =>
        /\ hist.passes <= 1
        /\ pc = "top" => hist.passes = 0
        /\ pc = "done" => hist.passes = 1
        /\ pc = "tail" => Breaks(flags.visualize, terminate)

\* C10 witness: a session without visualize is over after one pass in which
\* an error was logged and the restart signal was raised.
C10_Witness ==
    /\ pc = "done" /\ ~flags.visualize
    /\ hist.passes = 1
    /\ pype_restart /\ Len(log) > 0

-----------------------------------------------------------------------------
(* properties of the Container (SpecContainer) *)

\* C7: reset leaves the annotation store as it is and restores the buffers:
\* the working image equals the original, binary and canvas are unset,
\* whatever calls of run and select_canvas came before.
C7_ResetRestoresBuffers ==
    [][(hist'.calls # hist.calls /\ hist'.last.op = "reset") =>
          /\ stores' = stores
          /\ container'[hist'.last.id].image = container[hist'.last.id].image_copy
          /\ container'[hist'.last.id].image_copy = container[hist'.last.id].image_copy
          /\ container'[hist'.last.id].image_bin = "None"
          /\ container'[hist'.last.id].canvas = "None"]_vars

\* C7 witness: reset was called on a container with a modified image, a
\* binary buffer and a canvas, while the store held an annotation.
C7_Witness ==
    /\ hist.last.op = "reset"
    /\ hist.last.buffers.image = "mod"
    /\ hist.last.buffers.image_bin # "None"
    /\ hist.last.buffers.canvas # "None"
    /\ DOMAIN stores["global"]["masks"] # {}

\* C9 as stated: an annotation-producing method that runs for an id whose
\* annotation of the method's type is in the store receives exactly that
\* annotation, and receives none when the store has no entry of that type
\* and id.
C9_ReceivesExistingAnnotation ==
    (hist.last.op = "run" /\ hist.last.called /\ StoreKey(hist.last.fun) # Missing) =>
        hist.last.received =
            IF hist.last.existed
            THEN [ type |-> StoreKey(hist.last.fun), id |-> hist.last.id,
                   payload |-> hist.last.before ]
            ELSE NoPrev

-----------------------------------------------------------------------------
(* the gate, the export and the constructor (Spec) *)

Interactive == flags.visualize /\ flags.feedback

\* C11: in the interactive visual mode every completed pass is followed by
\* exactly one presentation of the canvas to the GUI, and the loop is left
\* if and only if the verdict of that pass has the termination flag set; on
\* any other verdict a further cycle runs.
C11_GateDecidesExit ==
    Interactive =>
        /\ (InPass /\ mode.execute) => hist.gates = 0
        /\ (pc = "tail" /\ ~pype_restart) =>
              /\ hist.gates = 1
              /\ Breaks(flags.visualize, terminate) <=> hist.verdict = "end"
        /\ (pc = "tail" /\ pype_restart) => hist.gates = 0
        /\ pc = "top" => ~terminate
        /\ pc = "done" => (hist.gates = 1 /\ hist.verdict = "end")

\* C11 witness: the second pass of an interactive session has been shown
\* once and the GUI returned without the termination flag.
C11_Witness ==
    /\ Interactive /\ pc = "tail" /\ ~pype_restart
    /\ hist.passes = 2
    /\ hist.gates = 1 /\ hist.verdict = "continue"

\* C12: container.save is called at most once in a session and only when the
\* loop was left by normal termination with autosave set: never while a pass
\* is in progress, after a skipped session, after a fatal error of the
\* constructor, after an error raised in debug mode, or when the last pass
\* was cut short by the restart signal.
C12_ExportOnlyAfterTermination ==
    /\ hist.exports <= 1
    /\ hist.exports = 1 => (pc = "done" /\ flags.autosave /\ terminate /\ ~pype_restart)
    /\ pc \in {"construct", "begin", "step", "method", "finish", "start", "top", "tail",
               "skipped", "failed"} => hist.exports = 0
    /\ (pc = "done" /\ pype_restart) => hist.exports = 0

\* C12 witness: a session with autosave has ended and container.save was called.
C12_Witness ==
    /\ pc = "done" /\ flags.autosave
    /\ hist.exports = 1

Range(q) == { q[i] : i \in DOMAIN q }

\* the names of the methods of the document's export step that the registry has
ExportMethods(doc) ==
    LET idx == { i \in 1..Len(doc) : doc[i].name = "export" /\ doc[i].form # "str" }
    IN  IF idx = {} THEN << >>
        ELSE LET i == CHOOSE j \in idx : \A l \in idx : l <= j
                 names == [k \in 1..Len(doc[i].methods) |-> doc[i].methods[k].name]
                 Has(n) == Exists("export", n)
             IN  SelectSeq(names, Has)

C15_SkippedNeverEntered ==
    /\ hist.skip =>
          /\ pc \in {"skipped", "failed"}
          /\ config_updated = << >> /\ hist.gates = 0
          /\ hist.passes = 0 /\ hist.trace = << >> /\ hist.last = NoCall
          /\ ~hist.monitor /\ yfm = Empty
          /\ hist.exports = 0
    /\ pc = "skipped" =>
          /\ hist.skip
          /\ file = hist.snapshot

\* C15 witness: the constructor has returned at the skip precheck with
\* everything else in place.
C15_Witness ==
    /\ pc = "skipped" /\ hist.skip
    /\ hist.env = "ok"

\* the method at position q is neither in the registry of its step nor in
\* the legacy table of its step
UnresolvedAt(doc, q) ==
    /\ ~Exists(doc[q[1]].name, At(doc, q).name)
    /\ At(doc, q).name \notin DOMAIN LegacyNames[doc[q[1]].name]

\* C16 as stated: a method whose name is neither in the registry of its
\* step nor in the legacy table of that step is never invoked: a diagnostic
\* is reported for it whether or not names are fixed, its invocation is
\* skipped, and the remaining methods of the pass are still processed.
C16_UnresolvedSkipped ==
    /\ (InPass /\ mode.execute) =>
          Len(hist.trace) = Cardinality({ q \in Done : ~UnresolvedAt(config, q) })
    /\ (pc = "method" /\ UnresolvedAt(config, <<si, mi>>)) =>
          Diagnostic(config[si].name, config[si].methods[mi].name, flags.fix_names)

\* C17 as stated: no caught error is swallowed: every error caught in a
\* session, an error of an operation caught in the method loop as well as an
\* error caught around the GUI, is recorded in the session log and reported,
\* and does not stop the session.
C17_CaughtErrorsLogged ==
    (pc = "tail" /\ ~pype_restart) =>
        /\ Len(log) = hist.log0 + hist.raised + (IF hist.verdict = "raise" THEN 1 ELSE 0)
        /\ hist.verdict = "raise" => ~Breaks(flags.visualize, terminate)

-----------------------------------------------------------------------------
(* further properties of the Container (SpecContainer) *)

\* C18 as stated: the annotation store of every newly created Container is
\* empty and belongs to that Container alone: of two Containers, created in
\* any order, neither sees an annotation written through the other.
C18_OwnEmptyStore ==
    /\ hist.last.op = "new" =>
          stores[container[hist.last.id].store] = EmptyStore
    /\ \A c, d \in ContainerIds :
          (c # d /\ Created(c) /\ Created(d)) => container[c].store # container[d].store

-----------------------------------------------------------------------------
(* further properties of the passes (Spec) *)

\* C19: _iterate never mutates its input document: after any pass, dry or
\* execute, with alias fixes, extraction and injection of the annotation
\* block, or feedback disabled, the input document is what it was before the
\* pass, and every modification is in the updated document only.
C19_InputNotMutated ==
    /\ (InPass \/ pc \in {"start", "tail"}) => config = hist.snapshot
    /\ pc = "finish" =>
          /\ Len(config_updated) = Len(config)
          /\ config_updated = IterateDocument(config, flags.fix_names, mode).updated

\* C19 witness: an execute pass without feedback is at its end after an
\* alias fix and the extraction of an annotation block, and the updated
\* document differs from the input.
C19_Witness ==
    /\ pc = "finish" /\ mode.execute /\ ~mode.feedback
    /\ config_updated # config
    /\ \E q \in Positions(config) : At(config, q).ann.present
    /\ \E q \in Positions(config) :
          AliasFixed(config[q[1]].name, At(config, q).name, flags.fix_names)

-----------------------------------------------------------------------------
(* SpecProject: Project.__init__ on a root directory in any state *)

Entries == {"attributes.yaml", "data", "notes.txt"}
Images == {"img1", "img2"}
Answers == {"y", "n"}

\* data/<dir>/attributes.yaml of an image added by an earlier session, which
\* has also added the reference "r1" and made it the active one
OldAttributes ==
    [mode |-> "link", resize |-> Missing, reference_global |-> [r1 |-> TRUE]]

\* what may be at root_dir when the constructor is called
Directories ==
    {NoDirectory} \cup
    UNION { { [exists |-> TRUE,
               entries |-> IF d = {} THEN e ELSE e \cup {"reference"},
               data |-> d,
               attrs |-> [n \in d |-> OldAttributes],
               references |-> IF d = {} THEN {} ELSE {"r1"}] :
                d \in IF "data" \in e THEN SUBSET Images ELSE { {} } } :
            e \in SUBSET Entries }

\* "attributes.yaml" and "data" are in os.listdir(root_dir)
ValidProject(d) == d.exists /\ {"attributes.yaml", "data"} \subseteq d.entries

\* shutil.rmtree(root_dir), os.makedirs(root_dir), os.makedirs(root_dir/data)
Recreated ==
    [exists |-> TRUE, entries |-> {"data"}, data |-> {}, attrs |-> << >>, references |-> {}]

\* the branch of the if/elif chain taken for a valid project directory; a
\* combination that matches none of the three falls through to the removal
Branch(load, overwrite) ==
    IF load /\ ~overwrite THEN "load"
    ELSE IF ~load /\ overwrite THEN "remove"
    ELSE IF load /\ overwrite THEN "query"
    ELSE "remove"

\* the variables of the session and of the containers
session == <<terminate, config, config_updated, parsed, file, yfm, mode, si, mi,
             counter, log, pype_restart, container, stores, run_defaults, hist>>

InitProject ==
    /\ pc = "project"
    /\ flags \in [load : BOOLEAN, overwrite : BOOLEAN]
    /\ root_dir \in Directories
    /\ project = [NoProject EXCEPT !.before = root_dir]
    /\ terminate = FALSE
    /\ config = << >> /\ config_updated = << >> /\ file = << >>
    /\ parsed = EmptyDict
    /\ yfm = Empty
    /\ mode = Mode(FALSE, FALSE, FALSE)
    /\ si = 1 /\ mi = 1
    /\ counter = CounterInit
    /\ log = << >>
    /\ pype_restart = FALSE
    /\ container = NewContainer("session")
    /\ stores = [r \in {"session"} |-> EmptyStore]
    /\ run_defaults = EmptyKwargs
    /\ hist = HistInit

\* the body of the while loop up to a prompt, a return or the break
ProjectEnter ==
    /\ pc = "project"
    /\ IF ~root_dir.exists
       THEN pc' = "query2" /\ UNCHANGED root_dir
       ELSE IF ~ValidProject(root_dir)
       THEN pc' = "returned" /\ UNCHANGED root_dir
       ELSE CASE Branch(flags.load, flags.overwrite) = "load" ->
                    pc' = "read" /\ UNCHANGED root_dir
              [] Branch(flags.load, flags.overwrite) = "query" ->
                    pc' = "query1" /\ UNCHANGED root_dir
              [] OTHER ->
                    pc' = "read" /\ root_dir' = Recreated
    /\ UNCHANGED <<flags, project>>
    /\ UNCHANGED session

\* the answer to "overwrite (y/n)?"
ProjectOverwriteAnswer(answer) ==
    /\ pc = "query1"
    /\ project' = [project EXCEPT !.answer = answer]
    /\ IF Confirms(answer)
       THEN pc' = "read" /\ root_dir' = Recreated
       ELSE pc' = "returned" /\ UNCHANGED root_dir
    /\ UNCHANGED flags
    /\ UNCHANGED session

\* the answer to "Proceed? (y/n)"
ProjectCreateAnswer(answer) ==
    /\ pc = "query2"
    /\ project' = [project EXCEPT !.answer = answer]
    /\ IF Confirms(answer)
       THEN pc' = "read" /\ root_dir' = Recreated
       ELSE pc' = "returned" /\ UNCHANGED root_dir
    /\ UNCHANGED flags
    /\ UNCHANGED session

\* after the loop: the data directory is listed, attributes.yaml is written
\* when it is missing, the attributes are attached
ProjectAttach ==
    /\ pc = "read"
    /\ root_dir' = [root_dir EXCEPT !.entries = @ \cup {"attributes.yaml"}]
    /\ project' = [project EXCEPT !.attached = TRUE, !.dir_names = root_dir.data]
    /\ pc' = "loaded"
    /\ UNCHANGED flags
    /\ UNCHANGED session

MaxAdds == 1    \* calls of add_files on a project
MaxProjectCalls == 2    \* calls of add_files and add_reference on a project

\* resize_factor in tenths
ResizeFactors == {5, 10, 20}
BelowOne(resize_factor) == resize_factor < 10

Modes == {"copy", "mod", "link"}
Overwrites == {"False", "file", "dir"}

\* a mode_arg that is left as the caller gave it
CallerMode(mode_arg, resize_factor) == mode_arg

\* flags.mode after the check of resize_factor
EffectiveMode(mode_arg, resize_factor) == IF BelowOne(resize_factor) THEN "mod" ELSE mode_arg

\* flags.resize after the check of resize_factor
Resize(resize_factor) == BelowOne(resize_factor)

\* image_phenopype of the attributes file written for a file
Attributes(mode_arg, resize_factor) ==
    [ mode |-> EffectiveMode(mode_arg, resize_factor),
      resize |-> IF EffectiveMode(mode_arg, resize_factor) = "mod"
                 THEN (IF Resize(resize_factor) THEN "True" ELSE "False")
                 ELSE Missing,
      reference_global |-> << >> ]

\* the files of filepaths that get past the check of their directory
Ingested(found, data, overwrite) ==
    IF overwrite = "False" THEN found \ data ELSE found

\* project.add_files(image_dir, mode_arg=, resize_factor=, overwrite=)
ProjectAddFiles(mode_arg, resize_factor, overwrite, found) ==
    /\ pc = "loaded"
    /\ project.adds < MaxAdds
    /\ project.adds + project.refs < MaxProjectCalls
    /\ LET new == Ingested(found, root_dir.data, overwrite)
       IN  /\ root_dir' = [root_dir EXCEPT
                              !.data = @ \cup new,
                              !.attrs = [n \in root_dir.data \cup new |->
                                           IF n \in new
                                           THEN Attributes(mode_arg, resize_factor)
                                           ELSE root_dir.attrs[n]]]
           /\ project' = [project EXCEPT
                             !.adds = @ + 1,
                             !.dir_names = root_dir.data \cup new,
                             !.last_ref = NoRef,
                             !.last = [ op |-> "add_files", mode |-> mode_arg,
                                        resize_factor |-> resize_factor,
                                        overwrite |-> overwrite, found |-> found,
                                        before |-> root_dir.data ]]
    /\ UNCHANGED <<pc, flags>>
    /\ UNCHANGED session

MaxRefs == 1    \* calls of add_reference on a project

Tags == {"r1", "r2"}

\* an activation that leaves the other references as they are
ActivatedKeepsOthers(reference_global, reference_tag) ==
    [k \in DOMAIN reference_global \cup {reference_tag} |->
        IF k = reference_tag THEN TRUE ELSE reference_global[k]]

\* attr["reference_global"] after the loop that sets the active reference
Activated(reference_global, reference_tag) ==
    [k \in DOMAIN reference_global \cup {reference_tag} |-> k = reference_tag]

\* the while loop goes on to measure the reference: no image of the tag is
\* saved yet, or it may be overwritten
Measures(references, reference_tag, overwrite) ==
    ~(reference_tag \in references /\ ~overwrite)

\* project.add_reference(reference_image_path, reference_tag, activate=,
\* overwrite=); raises is whether measuring the reference raises
ProjectAddReference(reference_tag, activate, overwrite, raises) ==
    /\ pc = "loaded"
    /\ project.refs < MaxRefs
    /\ project.adds + project.refs < MaxProjectCalls
    /\ raises => Measures(root_dir.references, reference_tag, overwrite)
    /\ root_dir' =
          IF raises THEN root_dir
          ELSE [root_dir EXCEPT
                  !.entries = @ \cup {"reference"},
                  !.references =
                      IF Measures(root_dir.references, reference_tag, overwrite)
                      THEN @ \cup {reference_tag} ELSE @,
                  !.attrs = [n \in DOMAIN root_dir.attrs |->
                               IF activate /\ n \in project.dir_names
                               THEN [root_dir.attrs[n] EXCEPT !.reference_global =
                                        Activated(@, reference_tag)]
                               ELSE root_dir.attrs[n]]]
    /\ project' = [project EXCEPT
                      !.refs = @ + 1,
                      !.last = NoAdd,
                      !.last_ref = [ op |-> "add_reference", tag |-> reference_tag,
                                     activate |-> activate, dirs |-> project.dir_names,
                                     raised |-> raises ]]
    /\ UNCHANGED <<pc, flags>>
    /\ UNCHANGED session

NextProject ==
    \/ \E reference_tag \in Tags, activate \in BOOLEAN, overwrite \in BOOLEAN,
          raises \in BOOLEAN :
          ProjectAddReference(reference_tag, activate, overwrite, raises)
    \/ ProjectEnter
    \/ \E answer \in Answers : ProjectOverwriteAnswer(answer)
    \/ \E answer \in Answers : ProjectCreateAnswer(answer)
    \/ ProjectAttach
    \/ \E mode_arg \in Modes, resize_factor \in ResizeFactors, overwrite \in Overwrites,
          found \in SUBSET Images :
          ProjectAddFiles(mode_arg, resize_factor, overwrite, found)

SpecProject == InitProject /\ [][NextProject]_vars

\* C20 as stated: Project(root_dir, load, overwrite) removes an existing
\* valid project directory only when overwrite is set, and with load set only
\* after the user confirmed; for every value of load, overwrite=False leaves
\* an existing valid project directory and its contents in place.
C20_KeptWithoutOverwrite ==
    (ValidProject(project.before) /\ project.adds = 0 /\ project.refs = 0) =>
        /\ ~flags.overwrite => root_dir = project.before
        /\ root_dir # project.before =>
              (flags.overwrite /\ (flags.load => Confirms(project.answer)))

-----------------------------------------------------------------------------
(* the method loop and the steps (Spec) *)

\* C22: with debug set the first error of an operation in an execute pass
\* leaves _iterate and ends the pass at once: no later method is invoked, no
\* log entry is appended for it, the updated document is not saved and
\* container.save is not called; without debug an error of an operation is
\* never fatal.
C22_DebugPropagates ==
    /\ (pc = "failed" /\ hist.passes >= 1) =>
          /\ flags.debug
          /\ hist.last.raised /\ hist.raised = 1
          /\ Len(hist.trace) = Cardinality(Done) + 1
          /\ Len(log) = hist.log0
          /\ ~hist.saved /\ hist.gates = 0
          /\ hist.exports = 0
    /\ (flags.debug /\ mode.execute /\ (InPass \/ pc \in {"tail", "done", "top"})) =>
          hist.raised = 0
    /\ (~flags.debug /\ pc = "failed") => hist.passes = 0

\* C22 witness: with debug set an operation raised after an earlier method
\* of the pass had returned and with methods left in the document.
C22_Witness ==
    /\ pc = "failed" /\ flags.debug /\ hist.passes >= 1
    /\ Len(hist.trace) >= 2
    /\ Len(hist.trace) < Cardinality(Positions(config))


(***************************************************************************)
(* the defaults of the annotation block (SpecIterate)                      *)
(***************************************************************************)

\* the names, current and legacy, of the operations that replace what an
\* earlier run has stored: contour detection, shape and texture features,
\* shape detection, skeletonization
StructurallyReplacing ==
    { "detect_contour", "detect_contours",
      "compute_shape_features", "shape_features",
      "compute_texture_features", "texture_features",
      "detect_shape", "detect_skeleton", "skeletonize" }

HasExplicitEdit(doc, p) ==
    At(doc, p).form = "map" /\ At(doc, p).ann.present /\ At(doc, p).ann.edit # Missing

\* C25 as stated: an annotation-producing method without an explicit edit
\* field gets the edit policy overwrite exactly when it is one of the
\* structurally replacing operations, and False when it is any other
\* annotation-producing method of the name-to-type table.
C25_DefaultEdit ==
    (pc = "returned" /\ hist.passes = 1) =>
       /\ \A p \in Positions(config) :
             (IsAnnotation(At(config_updated, p).name) /\ ~HasExplicitEdit(config, p)) =>
                At(config_updated, p).ann.edit =
                   IF At(config, p).name \in StructurallyReplacing
                   THEN "overwrite" ELSE "False"
       /\ \A f \in DOMAIN AnnotationFunctions :
             DefaultEdit(f) = IF f \in StructurallyReplacing THEN "overwrite" ELSE "False"

\* the annotation block of an entry has its three fields
CompleteBlock(entry) ==
    /\ entry.form = "map"
    /\ entry.ann.present
    /\ entry.ann.type # Missing /\ entry.ann.id # Missing /\ entry.ann.edit # Missing

\* C27: after a completed pass every annotation-producing method of the
\* updated document has a complete annotation block and, next to it, the
\* arguments it has in the input document; every method that is neither
\* annotation-producing nor alias-fixed is the entry of the input document.
C27_UpdatedEntries ==
    pc = "returned" =>
       /\ Positions(config_updated) = Positions(config)
       /\ \A p \in Positions(config) :
             IF IsAnnotation(At(config_updated, p).name)
             THEN /\ CompleteBlock(At(config_updated, p))
                  /\ At(config_updated, p).args = MethodArgs(At(config, p)).args
             ELSE ~AliasFixed(config[p[1]].name, At(config, p).name, flags.fix_names) =>
                     At(config_updated, p) = At(config, p)

\* an executing pass without feedback has completed over an annotation method
\* with an argument and no complete block, and over a method that is neither
\* annotation-producing nor alias-fixed
C27_Witness ==
    /\ pc = "returned" /\ hist.passes = 1 /\ mode.execute /\ ~mode.feedback
    /\ \E p, q \in Positions(config) :
          /\ IsAnnotation(At(config_updated, p).name)
          /\ ~CompleteBlock(At(config, p))
          /\ At(config, p).args = {"k"}
          /\ ~IsAnnotation(At(config_updated, q).name)
          /\ ~AliasFixed(config[q[1]].name, At(config, q).name, flags.fix_names)
          /\ At(config, q).form = "map"

\* C33 as stated: within one pass a defaulted id is never the id that another
\* method of the same annotation type carries explicitly in the document, so
\* two methods of the updated document have the same type and id only when
\* the user wrote both ids.
C33_DefaultAvoidsExplicit ==
    (pc = "returned" /\ hist.passes = 1) =>
       \A p, q \in Positions(config) :
          ( /\ p # q
            /\ IsAnnotation(At(config_updated, p).name)
            /\ IsAnnotation(At(config_updated, q).name)
            /\ At(config_updated, p).ann.type = At(config_updated, q).ann.type
            /\ At(config_updated, p).ann.id = At(config_updated, q).ann.id )
          => (HasExplicitId(config, p) /\ HasExplicitId(config, q))

\* C34 as stated: the document persisted by _iterate holds no argument that
\* the engine added for the invocation only: with feedback off the passive
\* argument set before the call is in no method of the rewritten document,
\* alias-fixed or not.
C34_NoInvocationArguments ==
    pc = "returned" =>
       /\ \A p \in Positions(config_updated) :
             At(config_updated, p).args \subseteq At(config, p).args
       /\ \A p \in Positions(file) : "passive" \notin At(file, p).args

(***************************************************************************)
(* the implicit canvas selection and the skipped steps (Spec)              *)
(***************************************************************************)

\* the steps of the pass document the running pass has entered
Entered == { k \in 1..Len(config) : k < si \/ (k = si /\ pc \in {"method", "finish"}) }

\* the steps of the pass document that need the implicit select_canvas
NeedsCanvas ==
    { k \in 1..Len(config) :
         /\ config[k].name = "visualization"
         /\ config[k].form = "list"
         /\ \A j \in 1..Len(config[k].methods) :
               config[k].methods[j].name # "select_canvas" }

\* C23: in an executing pass select_canvas is invoked implicitly on a
\* visualization step with a method list exactly when no canvas is selected and
\* the list does not name select_canvas; the call comes before every declared
\* method of the step, at most once for the step, and never in the dry pass.
C23_ImplicitSelectCanvas ==
    InPass =>
       /\ ~mode.execute => hist.auto = << >>
       /\ \A a \in 1..Len(hist.auto) :
             /\ mode.execute
             /\ hist.auto[a].si \in NeedsCanvas \cap Entered
             /\ container.canvas = "None"
             /\ hist.auto[a].at = Cardinality({ q \in Positions(config) :
                                                   q[1] < hist.auto[a].si })
             /\ \A b \in 1..Len(hist.auto) :
                   hist.auto[b].si = hist.auto[a].si => a = b
       /\ mode.execute =>
             \A k \in NeedsCanvas \cap Entered :
                \E a \in 1..Len(hist.auto) : hist.auto[a].si = k

\* a pass has made the implicit call and gone on to a declared method of the step
C23_Witness ==
    /\ pc = "finish" /\ mode.execute
    /\ Len(hist.auto) = 1
    /\ Len(config[hist.auto[1].si].methods) > 0
    /\ Len(hist.trace) > hist.auto[1].at


\* the steps of the pass document whose method list is empty or absent
SkippedSteps ==
    { k \in 1..Len(config) :
         \/ config[k].form = "nil"
         \/ config[k].form = "list" /\ Len(config[k].methods) = 0 }

\* C24 as stated: a step whose method list is empty or absent is skipped: no
\* operation is invoked for it, the implicit select_canvas of a visualization
\* step included, it adds no log entry and changes nothing in the updated
\* document, and the steps after it are processed.
C24_EmptyStepSkipped ==
    InPass =>
       /\ \A a \in 1..Len(hist.auto) : hist.auto[a].si \notin SkippedSteps
       /\ \A k \in SkippedSteps \cap Entered :
             config_updated[k] = config[k]
       /\ ~flags.debug => Len(log) = hist.log0 + hist.raised
       /\ (pc = "finish" /\ ~pype_restart) => si = Len(config) + 1


(***************************************************************************)
(* what the method loop hands to container.run (Spec)                      *)
(***************************************************************************)

AnnotationFields == {"type", "id", "edit"}

\* the annotation block handed over keeps what the method gave and is complete
KeepsExplicit(given, handed) ==
    /\ handed.present
    /\ \A f \in AnnotationFields :
          /\ handed[f] # Missing
          /\ (given.present /\ given[f] # Missing) => handed[f] = given[f]
    /\ ~(given.present /\ given.type # Missing) =>
          handed.type \in AnnotationTypes

\* C26 as stated: for an annotation-producing method the fields given in its
\* annotation block are handed over unchanged and the missing ones are
\* filled, and the block is taken out of the arguments of the operation and
\* handed over separately; any other method is invoked with an empty block
\* and with its arguments unchanged.
C26_BlockHandedSeparately ==
    \A h \in 1..Len(hist.handed) :
       LET inv == hist.handed[h].inv
           given == MethodArgs(hist.handed[h].method)
       IN  IF IsAnnotation(inv.fun)
           THEN /\ KeepsExplicit(given.ann, inv.annotation_kwargs)
                /\ inv.fun_kwargs.ann = NoAnn
                /\ given.args \subseteq inv.fun_kwargs.args
           ELSE /\ inv.annotation_kwargs = NoAnn
                /\ inv.fun_kwargs = given

\* C26 (amended): as stated, except that the arguments handed to the operation
\* are those of the document together with the passive marker whenever
\* feedback is off, for annotation-producing and other methods alike.
C26_BlockHandedSeparatelyPassive ==
    \A h \in 1..Len(hist.handed) :
       LET inv == hist.handed[h].inv
           given == MethodArgs(hist.handed[h].method)
           args == given.args \cup (IF flags.feedback THEN {} ELSE {"passive"})
       IN  IF IsAnnotation(inv.fun)
           THEN /\ KeepsExplicit(given.ann, inv.annotation_kwargs)
                /\ inv.annotation_kwargs.type =
                      IF given.ann.present /\ given.ann.type # Missing
                      THEN given.ann.type ELSE AnnotationFunctions[inv.fun]
                /\ inv.fun_kwargs = [ann |-> NoAnn, args |-> args]
           ELSE /\ inv.annotation_kwargs = NoAnn
                /\ inv.fun_kwargs = [ann |-> given.ann, args |-> args]

\* an annotation-producing method with an id of its own that is not the
\* default has been invoked with feedback off, and so has a method that is
\* not annotation-producing and carries a block
C26_Witness ==
    /\ Len(hist.handed) = 1
    /\ ~flags.feedback
    /\ LET inv == hist.handed[1].inv
           given == MethodArgs(hist.handed[1].method)
       IN  /\ given.ann.present /\ given.ann.id = "b"
           /\ IsAnnotation(inv.fun)
           /\ inv.annotation_kwargs.id = "b"
           /\ inv.annotation_kwargs.edit = "overwrite"
           /\ "passive" \in inv.fun_kwargs.args


(***************************************************************************)
(* the dry pass and the rewrite of the file (Spec)                         *)
(***************************************************************************)

DryMode == Mode(FALSE, FALSE, FALSE)

\* nothing has been invoked or logged, the store and the flag are untouched
NothingDone ==
    /\ hist.trace = << >> /\ hist.auto = << >> /\ hist.handed = << >>
    /\ hist.passes = 0 /\ hist.gates = 0
    /\ log = << >>
    /\ stores = [r \in {"session"} |-> EmptyStore]
    /\ ~terminate

\* the dry pass of the constructor has completed
DryPassDone == pc = "start"

C28_DryPass ==
    /\ (InPass /\ ~mode.execute) => (mode = DryMode /\ NothingDone)
    /\ DryPassDone =>
          /\ NothingDone
          /\ config_updated = IterateDocument(config, flags.fix_names, DryMode).updated
          /\ config_updated # config => file = config_updated
          /\ (config_updated = config /\ ~hist.user_file) => file = hist.snapshot
          /\ hist.saved <=> config_updated # config
    /\ (pc = "tail" /\ ~pype_restart) => (hist.saved <=> config_updated # config)

\* the step that ends a pass writes the updated document over the file when
\* it differs from the input of the pass, and leaves the file alone otherwise
C28_SavedIffChanged ==
    (pc = "finish" /\ pc' # "finish") =>
        file' = IF config_updated # config THEN config_updated ELSE file

\* C28: a dry pass invokes no operation, adds no log entry and changes neither
\* the annotation store nor the terminate flag, but computes the alias fix-ups
\* and the defaults of the annotation blocks and rewrites the file exactly
\* when the updated document differs from its input; every completed pass,
\* dry or executing, saves the document if and only if it differs.
C28_DryPassAndSave == []C28_DryPass /\ [][C28_SavedIffChanged]_vars

\* the dry pass has fixed an alias and defaulted a block, and has rewritten
\* the file
C28_Witness ==
    /\ DryPassDone
    /\ config_updated # config /\ file = config_updated /\ file # hist.snapshot
    /\ \E p \in Positions(config) :
          /\ AliasFixed(config[p[1]].name, At(config, p).name, flags.fix_names)
          /\ ~CompleteBlock(At(config, p))
          /\ CompleteBlock(At(config_updated, p))

\* an executing pass has completed without a change and without a rewrite
C28_WitnessUnchanged ==
    /\ pc = "tail" /\ ~pype_restart /\ ~hist.saved
    /\ Len(hist.trace) > 0


(***************************************************************************)
(* the cycles without content and the reset of the buffers (Spec)          *)
(***************************************************************************)

\* the monitor has published nothing when the loop is at its head
EmptySnapshot == pc = "top" /\ Interactive /\ yfm.empty

C29_NotTerminated == EmptySnapshot => (~terminate /\ pc # "failed" /\ hist.monitor)

\* a step taken with an empty snapshot: the loop stays at its head; nothing is
\* invoked, reset, logged or rewritten, and only the user changes the file
C29_RetryStep ==
    EmptySnapshot =>
       /\ pc' = "top"
       /\ UNCHANGED <<config, config_updated, parsed, container, stores, log,
                      terminate, counter, run_defaults, si, mi, mode, flags>>
       /\ hist'.passes = hist.passes /\ hist'.trace = hist.trace
       /\ hist'.auto = hist.auto /\ hist'.last = hist.last
       /\ hist'.edits = hist.edits => file' = file

\* C29: while the snapshot of the watcher is empty the loop only retries: no
\* pass runs in such a cycle, no operation is invoked, the workspace is not
\* reset, no log entry is added, the document is not rewritten, and the
\* session is neither terminated nor failed.
C29_EmptySnapshotRetries == []C29_NotTerminated /\ [][C29_RetryStep]_vars

\* the loop has retried and the snapshot is still empty
C29_Witness == EmptySnapshot /\ hist.retried


\* the buffers are those of a container that has just been reset
CleanBuffers(c) == c.image = c.image_copy /\ c.image_bin = "None" /\ c.canvas = "None"

\* a pass has reset the container once, and no method or implicit call of the
\* pass has yet been made on it
C30_OneResetFirst ==
    InPass =>
       /\ hist.resets = 1
       /\ (hist.trace = << >> /\ hist.auto = << >>) => CleanBuffers(container)

\* no step takes an annotation out of the store of the session
C30_AnnotationsKept ==
    \A t \in StoreTypes :
       \A id \in DOMAIN stores["session"][t] : id \in DOMAIN stores'["session"][t]

\* C30 as stated: every pass begins with exactly one reset of the container,
\* made before the first invocation of the pass, so that no method sees what
\* an earlier pass did to the working, binary or canvas buffer, while the
\* annotations stored by earlier passes stay in the store.
C30_ResetBeginsPass == []C30_OneResetFirst /\ [][C30_AnnotationsKept]_vars


(***************************************************************************)
(* the active reference of a project (SpecProject)                         *)
(***************************************************************************)

\* the references the attributes of an image directory mark as active
ActiveReferences(n) ==
    { t \in DOMAIN root_dir.attrs[n].reference_global :
         root_dir.attrs[n].reference_global[t] }

\* C31: after any sequence of calls of add_reference, with activate true or
\* false and with any tags, the attributes of every image directory mark at
\* most one reference as active; after a call with activate=True that has
\* returned, the tag of the call, and no other, is active in every directory
\* the project had when the call was made.
C31_OneActiveReference ==
    /\ \A n \in root_dir.data : Cardinality(ActiveReferences(n)) <= 1
    /\ (project.last_ref.op = "add_reference" /\ project.last_ref.activate
          /\ ~project.last_ref.raised) =>
          \A n \in project.last_ref.dirs : ActiveReferences(n) = {project.last_ref.tag}

\* a second reference has been activated in a directory that had another one
C31_Witness ==
    /\ project.last_ref.op = "add_reference" /\ project.last_ref.activate
    /\ ~project.last_ref.raised
    /\ \E n \in project.last_ref.dirs :
          /\ DOMAIN root_dir.attrs[n].reference_global = Tags
          /\ ActiveReferences(n) = {project.last_ref.tag}


(***************************************************************************)
(* the rewrite of the file and the user (Spec)                             *)
(***************************************************************************)

\* the step that ends a pass replaces what the user saved only when that is
\* the document the pass started from
C32_ReplacesOwnInput ==
    (pc = "finish" /\ pc' # "finish" /\ file' # file /\ hist.user_file) => file = config

\* C32 as stated: a document the user saves while a pass is in progress is
\* never overwritten by the rewrite at the end of the pass: whenever the
\* engine persists an updated document, the content it replaces is the
\* content the pass started from.
C32_NoLostEdit == [][C32_ReplacesOwnInput]_vars


(***************************************************************************)
(* the pass cut short by the restart signal (Spec)                         *)
(***************************************************************************)

\* a pass that the signal has cut short is at the tail of the loop body
\* without a save, without a gate and without the terminate flag
C35_CutShort ==
    (pc = "tail" /\ pype_restart) =>
        /\ ~hist.saved /\ hist.gates = 0 /\ hist.verdict = Missing
        /\ ~terminate

\* the step on which the signal arrives leaves the file and the terminate
\* flag alone and ends the pass (the session, when the operation that gave
\* the signal also raised with debug set); the engine writes the file in no step but
\* the one that ends a completed pass
C35_NoWrite ==
    /\ (pype_restart' /\ ~pype_restart) =>
          /\ file' = file /\ terminate' = terminate
          /\ hist'.gates = hist.gates /\ hist'.saved = hist.saved
          /\ pc' \in {"tail", "failed"}
          /\ pc' = "failed" => (flags.debug /\ hist'.last.raised)
    /\ (file' # file /\ hist'.edits = hist.edits) =>
          (pc = "finish" /\ ~pype_restart /\ file' = config_updated)

\* C35: a pass cut short by the restart signal does not persist the updated
\* document, does not present the gate and leaves the terminate flag as it
\* was; what the pass had fixed and defaulted reaches the file only through a
\* later pass that completes.
C35_RestartPersistsNothing == []C35_CutShort /\ [][C35_NoWrite]_vars

\* the signal has cut short a pass whose updated document differs from its
\* input, in a session that shows the gate
C35_Witness ==
    /\ pc = "tail" /\ pype_restart
    /\ config_updated # config
    /\ file # config_updated
    /\ Interactive


(***************************************************************************)
(* the canvas at the gate (Spec)                                           *)
(***************************************************************************)

\* C36 as stated: the gate is never presented with an unset canvas: whenever
\* it is invoked a canvas has been selected in the pass, by a declared
\* select_canvas, by the implicit one of the visualization step or by the
\* selection made just before the gate.
C36_GateHasCanvas ==
    (pc = "tail" /\ hist.gates > 0) => container.canvas # "None"


(***************************************************************************)
(* progress of the loop in the interactive visual mode (SpecLive)          *)
(***************************************************************************)

\* the session has ended, or has run the cycles of the bound
Ended == pc \in {"done", "failed", "skipped"} \/ (pc = "top" /\ hist.passes = MaxCycles)

\* C37: in the interactive visual mode, with a monitor that publishes what it
\* reads: the loop does not stay in the retry state, an executing pass runs,
\* a terminate verdict of the gate ends the session, and after an error
\* raised by the gate the loop comes back to the gate, or to the signal or
\* the error that ends the next pass before it.
C37_LoopProgress ==
    /\ (pc = "top" /\ yfm.empty) ~> ~yfm.empty
    /\ (pc = "top" /\ hist.passes = 0) ~> (hist.passes >= 1)
    /\ (pc = "tail" /\ hist.verdict = "end") ~> (pc = "done")
    /\ (pc = "tail" /\ hist.verdict = "raise" /\ hist.passes < MaxCycles)
          ~> (pc \in {"finish", "failed"} \/ (pc = "tail" /\ pype_restart))
    /\ <>Ended

\* the gate has returned the terminate verdict in a cycle after the first, in
\* a session whose loop had to retry
C37_Witness ==
    /\ pc = "tail" /\ hist.verdict = "end" /\ hist.passes = 2
    /\ Interactive


(***************************************************************************)
(* the arguments run adds to a call (SpecContainer)                        *)
(***************************************************************************)

\* what run adds for this call: the mask stored under annotation_id, and the
\* mask set for threshold
OwnPrevious(store, annotation_id) ==
    IF annotation_id \in DOMAIN store["masks"]
    THEN [type |-> "masks", id |-> annotation_id, payload |-> store["masks"][annotation_id]]
    ELSE NoPrev

OwnMasks(store, fun) == fun = "threshold" /\ DOMAIN store["masks"] # {}

C38_CallReceivesItsOwn ==
    (hist'.calls = hist.calls + 1 /\ hist'.last.op = "run" /\ hist'.last.called) =>
        /\ hist'.last.received = OwnPrevious(stores["global"], hist'.last.id)
        /\ hist'.last.masks = OwnMasks(stores["global"], hist'.last.fun)

\* C38: the operation a call of run reaches receives a previous annotation
\* only when the store holds a mask under the annotation_id of that call, and
\* a mask set only when that call is threshold over a store with masks:
\* nothing added by an earlier call is received.
C38_NoCarryOver == [][C38_CallReceivesItsOwn]_vars

====
